---------------------------- MODULE Spec2Model ----------------------------
(***************************************************************************)
(* A model of the string-to-string hash table of hashmap.c / hashmap.h:    *)
(* a fixed array of bucket heads, each the head of a singly linked chain,  *)
(* with the operations Hashmap, hashmap_add, hashmap_get, hashmap_keys and *)
(* hashmap_free.  Memory is modelled explicitly: the bucket array, a heap  *)
(* of chain nodes and a heap of strings, each with the set of addresses    *)
(* already passed to sfree.  What snew/snewn hand out is not initialised:  *)
(* the variable fill is the content a run's allocator leaves in new        *)
(* blocks, and a bucket array may also be the block just released.         *)
(***************************************************************************)
EXTENDS Integers, Sequences, FiniteSets, TLC

\* ------------------------------------------------------------------ bounds
\* The bucket count the model runs with (the source's NUM_BUCKETS is 256).
NUM_BUCKETS == 2
\* Calls of Hashmap and hashmap_add in one run (the first Hashmap included).
MaxCalls == 4

\* ------------------------------------------------------------- the inputs
\* Keys and values are C strings: sequences of non-zero bytes.
\* "a", "c", "h", which share a bucket for 2 and for 3 buckets, and "d", which
\* goes to another one.
Keys == { <<97>>, <<99>>, <<104>>, <<100>> }
\* "1", "2"
Values == { <<49>>, <<50>> }
\* The empty string, standing for "no string argument" in a call record.
NoStr == << >>

\* ------------------------------------------------------------ the pointers
NULL == 0
\* A non-null pointer that points at nothing the program owns.
WILD == -1
\* An unsigned int that is neither 0 nor 1.
GARBAGE_UINT == 2
\* What an unsigned int nobody wrote may read as.
IndeterminateUInt == {0, 1, GARBAGE_UINT}

VARIABLES
    status,         \* "live", "freed" (after hashmap_free) or "crashed"
    fault,          \* "none", or what stopped the program
    data,           \* h->data: the bucket heads, [0..NUM_BUCKETS-1 -> entry]
    num_buckets,    \* h->num_buckets
    num_entries,    \* h->num_entries
    nodes,          \* the heap of chain nodes: address a holds nodes[a]
    strs,           \* the heap of strings: address p holds strs[p]
    freedNodes,     \* the node addresses passed to sfree
    freedStrs,      \* the string addresses passed to sfree
    ret,            \* the last call: its name, arguments and result
    last,           \* per key added to this table, the value of its last hashmap_add
    adds,           \* the hashmap_add calls this table has completed
    fill,           \* what this run's allocator leaves in the memory it hands out
    ncalls          \* the calls of Hashmap and hashmap_add so far

vars == << status, fault, data, num_buckets, num_entries, nodes, strs,
           freedNodes, freedStrs, ret, last, adds, fill, ncalls >>

\* ------------------------------------------------------------- the entries
\* struct hashmap_entry after a memset that covered all of it.
ZeroEntry == [key |-> NULL, value |-> NULL, has_entry |-> 0, next |-> NULL]
\* struct hashmap_entry as a debug allocator's fill pattern leaves it.
PoisonEntry == [key |-> WILD, value |-> WILD, has_entry |-> GARBAGE_UINT, next |-> WILD]

\* --------------------------------------------------------------- the hash
\* A 32-bit word is a sequence of 32 bits, least significant first.
Bits(n, w) == [i \in 1..w |-> (n \div (2 ^ (i - 1))) % 2]
XorW(a, b) == [i \in 1..32 |-> (a[i] + b[i]) % 2]
ShiftR(a) == Tail(a) \o <<0>>
\* 0xEDB88320, the reflected CRC-32 polynomial.
CrcPoly == Bits(33568, 16) \o Bits(60856, 16)

RECURSIVE CrcRounds(_, _)
CrcRounds(crc, n) ==
    IF n = 0 THEN crc
    ELSE CrcRounds(IF crc[1] = 1 THEN XorW(ShiftR(crc), CrcPoly) ELSE ShiftR(crc), n - 1)

\* An unsigned char widened to a word.
ByteW(byte) == Bits(byte, 8) \o [i \in 1..24 |-> 0]

crc32_update(crc, byte) == CrcRounds(XorW(crc, ByteW(byte)), 8)

RECURSIVE crc32_fold(_, _)
crc32_fold(crc, buf) ==
    IF buf = << >> THEN crc ELSE crc32_fold(crc32_update(crc, Head(buf)), Tail(buf))

crc32_compute(buf) == crc32_fold([i \in 1..32 |-> 0], buf)

\* word % n, the word read from its most significant bit down.
RECURSIVE ModW(_, _, _)
ModW(word, i, n) ==
    IF i = 0 THEN 0 ELSE (2 * ModW(word, i - 1, n) + word[33 - i]) % n

\* index % nb for the CRC of every key of the model and every bucket count up
\* to the model's, computed once.
HashTable ==
    [nb \in 1..NUM_BUCKETS |-> [k \in Keys |-> ModW(crc32_compute(k), 32, nb)]]

\* hash(h, key): crc32 of the strlen(key) bytes of key, modulo h->num_buckets.
hash(key) == HashTable[num_buckets][key]

\* ------------------------------------------------------------- the memory
\* A cell is a bucket head, <<"b", i>>, or a chain node, <<"n", a>>.
HeadCell(i) == <<"b", i>>
NodeCell(a) == <<"n", a>>

\* A pointer the program may read through or release: allocated, not released.
StrOk(p, fs) == p \in 1..Len(strs) /\ p \notin fs
NodeOk(a, fn) == a \in 1..Len(nodes) /\ a \notin fn
CellOk(c, fn) == c[1] = "b" \/ NodeOk(c[2], fn)

\* *cell
Cell(c) == IF c[1] = "b" THEN data[c[2]] ELSE nodes[c[2]]

\* What reading through a bad pointer is: a use after free, or a wild access.
BadStr(p, fs) == IF p \in fs THEN "use-after-free" ELSE "invalid-read"
BadNode(a, fn) == IF a \in fn THEN "use-after-free" ELSE "invalid-read"

\* The comparison by identity, key != cell->key: the caller's string is never
\* the table's own copy.
strcmp_identity(s, p) == 1

\* strcmp(s, p): 0 when the string at p has the content s.
strcmp(s, p) == IF strs[p] = s THEN 0 ELSE 1

\* What snew/snewn hand out for a struct hashmap_entry: memory nobody wrote,
\* which is all zero, or holds garbage pointers with any has_entry.
FreshEntries ==
    {ZeroEntry} \cup { [PoisonEntry EXCEPT !.has_entry = u] : u \in IndeterminateUInt }

\* The call record kept in ret.
Call(op, key, value, result, keys) ==
    [op |-> op, key |-> key, value |-> value, result |-> result, keys |-> keys]

\* The program stops: nothing is called after a fault.
Crash(why, call) ==
    /\ status' = "crashed"
    /\ fault' = why
    /\ ret' = call
    /\ UNCHANGED << data, num_buckets, num_entries, nodes, strs, freedNodes,
                    freedStrs, last, adds, fill, ncalls >>

\* ------------------------------------------------------------ Hashmap()
\* snewn(NUM_BUCKETS, hashmap_entry) followed by memset(h->data, 0,
\* sizeof(h->data)): sizeof a pointer, so only the first field of the first
\* slot, data[0].key, is cleared.
NewArray(bytes) ==
    [i \in 0..(NUM_BUCKETS - 1) |->
        IF i = 0 THEN [bytes[i] EXCEPT !.key = NULL] ELSE bytes[i]]

\* A bucket array that snewn hands out with every slot as the allocator
\* leaves new memory.
FreshArray(e) == [i \in 0..(NUM_BUCKETS - 1) |-> e]

Init ==
    /\ status = "live"
    /\ fault = "none"
    /\ fill \in FreshEntries
    /\ data = NewArray(FreshArray(fill))
    /\ num_entries = 0
    /\ num_buckets = NUM_BUCKETS
    /\ nodes = << >>
    /\ strs = << >>
    /\ freedNodes = {}
    /\ freedStrs = {}
    /\ ret = Call("Hashmap", NoStr, NoStr, 0, << >>)
    /\ last = << >>
    /\ adds = 0
    /\ ncalls = 1

\* ------------------------------------------------------------- sfree
\* sfree(p) on a string: free() behind a null check.  Releasing what is
\* already released, or what was never allocated, is a fault.
sfree_str(p, fs) ==
    IF p = NULL THEN [fault |-> "none", freed |-> fs]
    ELSE IF StrOk(p, fs) THEN [fault |-> "none", freed |-> fs \cup {p}]
    ELSE IF p \in fs THEN [fault |-> "double-free", freed |-> fs]
    ELSE [fault |-> "invalid-free", freed |-> fs]

\* sfree(cell) on a chain node.
sfree_node(a, fn) ==
    IF a = NULL THEN [fault |-> "none", freed |-> fn]
    ELSE IF NodeOk(a, fn) THEN [fault |-> "none", freed |-> fn \cup {a}]
    ELSE IF a \in fn THEN [fault |-> "double-free", freed |-> fn]
    ELSE [fault |-> "invalid-free", freed |-> fn]

\* ---------------------------------------------------------- hashmap_add
\* while (cell->next != NULL && strcmp(key, cell->key)) cell = cell->next;
\* the cell the loop stops at, or the fault of reading through a bad pointer.
RECURSIVE add_walk(_, _)
add_walk(c, key) ==
    IF ~CellOk(c, freedNodes)
    THEN [fault |-> BadNode(c[2], freedNodes), cell |-> c]
    ELSE IF Cell(c).next = NULL
    THEN [fault |-> "none", cell |-> c]
    ELSE IF ~StrOk(Cell(c).key, freedStrs)
    THEN [fault |-> BadStr(Cell(c).key, freedStrs), cell |-> c]
    ELSE IF strcmp(key, Cell(c).key) # 0
    THEN add_walk(NodeCell(Cell(c).next), key)
    ELSE [fault |-> "none", cell |-> c]

\* The first half of hashmap_add: the cell the pair goes to.  append: a new
\* node is linked after cell; mark: the else branch sets cell->has_entry.
add_find(key) ==
    LET head == HeadCell(hash(key))
        e == Cell(head)
        at(c, app, mk) == [fault |-> "none", cell |-> c, append |-> app, mark |-> mk]
        bad(why) == [fault |-> why, cell |-> head, append |-> FALSE, mark |-> FALSE]
    IN  IF e.has_entry # 1 THEN at(head, FALSE, TRUE)
        ELSE IF ~StrOk(e.key, freedStrs) THEN bad(BadStr(e.key, freedStrs))
        ELSE IF strcmp(key, e.key) = 0 THEN at(head, FALSE, TRUE)
        ELSE LET w == add_walk(head, key) IN
             IF w.fault # "none" THEN bad(w.fault)
             ELSE IF ~StrOk(Cell(w.cell).key, freedStrs)
             THEN bad(BadStr(Cell(w.cell).key, freedStrs))
             ELSE at(w.cell, strcmp(key, Cell(w.cell).key) # 0, FALSE)

\* The memory with cell c holding e.
WriteCell(m, c, e) ==
    IF c[1] = "b"
    THEN [m EXCEPT !.data = [m.data EXCEPT ![c[2]] = e]]
    ELSE [m EXCEPT !.nodes = [m.nodes EXCEPT ![c[2]] = e]]

\* The second half of hashmap_add, once add_find found the cell without a
\* fault.  fresh is what snew(hashmap_entry) hands out for a new node, of
\* which memset(cell, 0, sizeof(cell)) clears the first field only.
add_store(f, key, value, fresh) ==
    LET newa == Len(nodes) + 1
        m0 == [data |-> data, nodes |-> nodes]
        \* cell->next = snew(hashmap_entry); cell = cell->next; memset
        m1 == IF f.append
              THEN WriteCell([m0 EXCEPT !.nodes = Append(nodes, [fresh EXCEPT !.key = NULL])],
                             f.cell, [Cell(f.cell) EXCEPT !.next = newa])
              ELSE IF f.mark
              THEN WriteCell(m0, f.cell, [Cell(f.cell) EXCEPT !.has_entry = 1])
              ELSE m0
        cell == IF f.append THEN NodeCell(newa) ELSE f.cell
        e == IF cell[1] = "b" THEN m1.data[cell[2]] ELSE m1.nodes[cell[2]]
        keyBad == e.key # NULL /\ ~StrOk(e.key, freedStrs)
        match == e.key # NULL /\ ~keyBad /\ strcmp(key, e.key) = 0
        rel == IF match THEN sfree_str(e.value, freedStrs)
               ELSE [fault |-> "none", freed |-> freedStrs]
        strs1 == IF match THEN strs ELSE Append(strs, key)
        keyp == IF match THEN e.key ELSE Len(strs1)
        strs2 == Append(strs1, value)
        m2 == WriteCell(m1, cell, [e EXCEPT !.key = keyp, !.value = Len(strs2), !.next = NULL])
    IN  [fault |-> IF keyBad THEN BadStr(e.key, freedStrs) ELSE rel.fault,
         data |-> m2.data, nodes |-> m2.nodes, strs |-> strs2, freedStrs |-> rel.freed]

\* The ghost record of the last value given for each key of this table.
Remember(key, value) ==
    [k \in (DOMAIN last) \cup {key} |-> IF k = key THEN value ELSE last[k]]

\* hashmap_add(h, key, value).  The function has no return statement: what
\* the caller reads as its result is indeterminate.
hashmap_add(key, value, fresh) ==
    /\ status = "live"
    /\ ncalls < MaxCalls
    /\ LET f == add_find(key) IN
       IF f.fault # "none"
       THEN Crash(f.fault, Call("hashmap_add", key, value, 0, << >>))
       ELSE \E r \in IndeterminateUInt :
            LET s == add_store(f, key, value, fresh) IN
            IF s.fault # "none"
            THEN Crash(s.fault, Call("hashmap_add", key, value, 0, << >>))
            ELSE /\ data' = s.data
                 /\ nodes' = s.nodes
                 /\ strs' = s.strs
                 /\ freedStrs' = s.freedStrs
                 /\ ret' = Call("hashmap_add", key, value, r, << >>)
                 /\ last' = Remember(key, value)
                 /\ adds' = adds + 1
                 /\ ncalls' = ncalls + 1
                 /\ UNCHANGED << status, fault, num_buckets, num_entries,
                                 freedNodes, fill >>

\* ---------------------------------------------------------- hashmap_get
\* while (cell->next != NULL && strcmp(key, cell->key)) cell = cell->next;
RECURSIVE get_walk(_, _)
get_walk(c, key) ==
    IF ~CellOk(c, freedNodes)
    THEN [fault |-> BadNode(c[2], freedNodes), cell |-> c]
    ELSE IF Cell(c).next = NULL
    THEN [fault |-> "none", cell |-> c]
    ELSE IF ~StrOk(Cell(c).key, freedStrs)
    THEN [fault |-> BadStr(Cell(c).key, freedStrs), cell |-> c]
    ELSE IF strcmp(key, Cell(c).key) # 0
    THEN get_walk(NodeCell(Cell(c).next), key)
    ELSE [fault |-> "none", cell |-> c]

\* What hashmap_get(h, key) returns: cell->value, or NULL, or a fault.
get_result(key) ==
    LET w == get_walk(HeadCell(hash(key)), key)
        e == Cell(w.cell)
    IN  IF w.fault # "none" THEN [fault |-> w.fault, result |-> NULL]
        ELSE IF e.key = NULL THEN [fault |-> "none", result |-> NULL]
        ELSE IF ~StrOk(e.key, freedStrs)
        THEN [fault |-> BadStr(e.key, freedStrs), result |-> NULL]
        ELSE IF strcmp(key, e.key) # 0 THEN [fault |-> "none", result |-> NULL]
        ELSE [fault |-> "none", result |-> e.value]

\* A lookup that also marks the bucket it searched as occupied.
hashmap_get_marking(key) ==
    /\ status = "live"
    /\ LET g == get_result(key) IN
       IF g.fault # "none"
       THEN Crash(g.fault, Call("hashmap_get", key, NoStr, NULL, << >>))
       ELSE /\ ret' = Call("hashmap_get", key, NoStr, g.result, << >>)
            /\ data' = [data EXCEPT ![hash(key)].has_entry = 1]
            /\ UNCHANGED << status, fault, num_buckets, num_entries, nodes,
                            strs, freedNodes, freedStrs, last, adds, fill, ncalls >>

\* hashmap_get(h, key): it writes nothing.
hashmap_get(key) ==
    /\ status = "live"
    /\ LET g == get_result(key) IN
       IF g.fault # "none"
       THEN Crash(g.fault, Call("hashmap_get", key, NoStr, NULL, << >>))
       ELSE /\ ret' = Call("hashmap_get", key, NoStr, g.result, << >>)
            /\ UNCHANGED << status, fault, data, num_buckets, num_entries, nodes,
                            strs, freedNodes, freedStrs, last, adds, fill, ncalls >>

\* --------------------------------------------------------- hashmap_keys
\* The keys one occupied bucket contributes, in chain order.
RECURSIVE keys_chain(_)
keys_chain(c) ==
    IF ~CellOk(c, freedNodes)
    THEN [fault |-> BadNode(c[2], freedNodes), keys |-> << >>]
    ELSE IF Cell(c).next = NULL
    THEN [fault |-> "none", keys |-> << Cell(c).key >>]
    ELSE LET rest == keys_chain(NodeCell(Cell(c).next)) IN
         [fault |-> rest.fault, keys |-> << Cell(c).key >> \o rest.keys]

\* for (i = 0; i < h->num_buckets; i++): the key pointers written to
\* key_array by the buckets i .. num_buckets-1.
RECURSIVE keys_scan(_)
keys_scan(i) ==
    IF i >= num_buckets THEN [fault |-> "none", keys |-> << >>]
    ELSE LET here == IF data[i].has_entry = 1 THEN keys_chain(HeadCell(i))
                     ELSE [fault |-> "none", keys |-> << >>]
             rest == keys_scan(i + 1)
         IN  IF here.fault # "none" THEN here
             ELSE [fault |-> rest.fault, keys |-> here.keys \o rest.keys]

\* What hashmap_keys(h) does: key_array has room for NUM_BUCKETS pointers, and
\* a write at key_index >= NUM_BUCKETS is past its end.
keys_result ==
    LET k == keys_scan(0) IN
    IF k.fault = "none" /\ Len(k.keys) > NUM_BUCKETS
    THEN [fault |-> "heap-overflow", keys |-> k.keys]
    ELSE k

\* A write past the end of key_array either stops the program or goes
\* unnoticed; any other fault stops it.
hashmap_keys ==
    /\ status = "live"
    /\ LET k == keys_result IN
       \/ /\ k.fault # "none"
          /\ Crash(k.fault, Call("hashmap_keys", NoStr, NoStr, 0, << >>))
       \/ /\ k.fault \in {"none", "heap-overflow"}
          /\ ret' = Call("hashmap_keys", NoStr, NoStr, 0, k.keys)
          /\ UNCHANGED << status, fault, data, num_buckets, num_entries, nodes,
                          strs, freedNodes, freedStrs, last, adds, fill, ncalls >>

\* --------------------------------------------------------- hashmap_free
\* A release state: the fault so far and the released addresses.
Released(f, fs, fn) == [fault |-> f, freedStrs |-> fs, freedNodes |-> fn]

\* sfree(cell->key); sfree(cell->value); for the entry e.
free_strings(e, st) ==
    LET k == sfree_str(e.key, st.freedStrs)
        v == sfree_str(e.value, k.freed)
    IN  IF k.fault # "none" THEN Released(k.fault, st.freedStrs, st.freedNodes)
        ELSE Released(v.fault, v.freed, st.freedNodes)

\* while (cell->next != NULL) { next_cell = cell->next; sfree(cell->key);
\* sfree(cell->value); sfree(cell); cell = next_cell; } from the node a.
RECURSIVE free_chain(_, _)
free_chain(a, st) ==
    IF st.fault # "none" THEN st
    ELSE IF ~NodeOk(a, st.freedNodes)
    THEN Released(BadNode(a, st.freedNodes), st.freedStrs, st.freedNodes)
    ELSE IF nodes[a].next = NULL THEN st
    ELSE LET s1 == free_strings(nodes[a], st)
             n == sfree_node(a, s1.freedNodes)
         IN  IF s1.fault # "none" THEN s1
             ELSE free_chain(nodes[a].next, Released(n.fault, s1.freedStrs, n.freed))

\* The body of the loop over the buckets, for bucket i.
free_bucket(i, st) ==
    IF data[i].has_entry = 1 /\ data[i].next # NULL
    THEN free_chain(data[i].next, free_strings(data[i], st))
    ELSE st

\* for (i = 0; i < h->num_buckets; i++) from bucket i on.
RECURSIVE free_scan(_, _)
free_scan(i, st) ==
    IF i >= num_buckets \/ st.fault # "none" THEN st
    ELSE free_scan(i + 1, free_bucket(i, st))

\* hashmap_free(h): the chains, then sfree(h->data) and sfree(h).  The bytes
\* of the released bucket array stay where they are.
hashmap_free ==
    /\ status = "live"
    /\ LET st == free_scan(0, Released("none", freedStrs, freedNodes)) IN
       IF st.fault # "none"
       THEN Crash(st.fault, Call("hashmap_free", NoStr, NoStr, 0, << >>))
       ELSE /\ status' = "freed"
            /\ freedStrs' = st.freedStrs
            /\ freedNodes' = st.freedNodes
            /\ ret' = Call("hashmap_free", NoStr, NoStr, 0, << >>)
            /\ UNCHANGED << fault, data, num_buckets, num_entries, nodes, strs,
                            last, adds, fill, ncalls >>

\* ------------------------------------------------------------ Hashmap()
\* A table constructed after the previous one was released; bytes is what
\* snewn finds in the new bucket array.
Hashmap(bytes) ==
    /\ status = "freed"
    /\ ncalls < MaxCalls
    /\ status' = "live"
    /\ data' = NewArray(bytes)
    /\ num_entries' = 0
    /\ num_buckets' = NUM_BUCKETS
    /\ ret' = Call("Hashmap", NoStr, NoStr, 0, << >>)
    /\ last' = << >>
    /\ adds' = 0
    /\ ncalls' = ncalls + 1
    /\ UNCHANGED << fault, nodes, strs, freedNodes, freedStrs, fill >>

\* ------------------------------------------------------ specifications
\* New memory holds what the run's allocator leaves in it or, for a bucket
\* array allocated after one was released, the released array's bytes.
Next ==
    \/ \E k \in Keys, v \in Values : hashmap_add(k, v, fill)
    \/ \E k \in Keys : hashmap_get(k)
    \/ hashmap_keys
    \/ hashmap_free
    \/ \E bytes \in {FreshArray(fill), data} : Hashmap(bytes)

Spec == Init /\ [][Next]_vars

\* The runs in which every allocation returns zero-filled memory.
ZeroArray == FreshArray(ZeroEntry)

InitZeroed == Init /\ fill = ZeroEntry

NextZeroed ==
    \/ \E k \in Keys, v \in Values : hashmap_add(k, v, ZeroEntry)
    \/ \E k \in Keys : hashmap_get(k)
    \/ hashmap_keys
    \/ hashmap_free
    \/ Hashmap(ZeroArray)

SpecZeroed == InitZeroed /\ [][NextZeroed]_vars

\* ------------------------------------------------------ what a caller sees
\* What hashmap_get(h, key) gives its caller: the string it returns, absent
\* for NULL, or the fault that stops the call.
Lookup(key) ==
    LET g == get_result(key) IN
    IF g.fault # "none" THEN << "fault", g.fault >>
    ELSE IF g.result = NULL THEN << "absent" >>
    ELSE IF ~StrOk(g.result, freedStrs) THEN << "dangling" >>
    ELSE << "value", strs[g.result] >>

\* The string a key pointer of hashmap_keys leads to.
KeyText(p) == IF StrOk(p, freedStrs) THEN strs[p] ELSE << >>

\* What hashmap_keys(h) gives its caller: the keys, as strings, in order.
KeysView ==
    LET k == keys_result IN
    IF k.fault # "none" THEN << "fault", k.fault >>
    ELSE << "keys", [i \in 1..Len(k.keys) |-> KeyText(k.keys[i])] >>

\* The observable state: every key's lookup and the enumeration.
Obs == [gets |-> [k \in Keys |-> Lookup(k)], keys |-> KeysView]

\* The cells of bucket i's chain, as far as valid links lead.
RECURSIVE ChainCells(_)
ChainCells(c) ==
    IF ~CellOk(c, freedNodes) THEN << >>
    ELSE IF Cell(c).next = NULL THEN << c >>
    ELSE << c >> \o ChainCells(NodeCell(Cell(c).next))

\* The entries with the key content k in the chain of k's bucket.
EntriesFor(k) ==
    LET cs == ChainCells(HeadCell(hash(k))) IN
    { i \in 1..Len(cs) :
        /\ cs[i][1] = "n" \/ Cell(cs[i]).has_entry = 1
        /\ StrOk(Cell(cs[i]).key, freedStrs)
        /\ strs[Cell(cs[i]).key] = k }

\* The keys added to this table so far.
Added == DOMAIN last

\* ------------------------------------------------------------------ claims

\* C1: after any sequence of hashmap_add calls on a new table, hashmap_get of
\* every key added at least once returns the value of that key's most recent
\* hashmap_add, whatever other keys were added before or after it.
C1_GetReturnsLastAdded ==
    status = "live" => \A k \in Added : Lookup(k) = << "value", last[k] >>

\* C2: right after hashmap_add(k, v), in any reachable table state,
\* hashmap_get(k) returns v and the chain of k's bucket holds exactly one
\* entry whose key is k.
C2_AddThenGet ==
    ret.op = "hashmap_add" =>
        /\ status = "live"
        /\ Lookup(ret.key) = << "value", ret.value >>
        /\ Cardinality(EntriesFor(ret.key)) = 1

\* C3: hashmap_get of a key never added to the table returns NULL, and does
\* not fault, in every reachable table state.
C3_GetAbsentIsNull ==
    (ret.op = "hashmap_get" /\ ret.key \notin Added) =>
        (status = "live" /\ ret.result = NULL)

\* C4: hashmap_keys writes each distinct key added exactly once and nothing
\* else: as a set the keys written are the keys added, and their number is the
\* number of distinct keys added.
C4_KeysAreTheAddedKeys ==
    (ret.op = "hashmap_keys" /\ status = "live") =>
        /\ { KeyText(ret.keys[i]) : i \in 1..Len(ret.keys) } = Added
        /\ Len(ret.keys) = Cardinality(Added)

\* The keys of ks all go to one bucket.
SameBucket(ks) == \A k1 \in ks, k2 \in ks : hash(k1) = hash(k2)

\* C5: when pairwise distinct keys of one bucket are each added once, in any
\* order, every hashmap_add completes and every one of the keys is afterwards
\* retrievable with the value it was added with.
C5_CollidingKeysRetrievable ==
    /\ (status = "live" /\ adds = Cardinality(Added) /\ SameBucket(Added)) =>
           \A k \in Added : Lookup(k) = << "value", last[k] >>
    /\ ~ ( /\ status = "crashed"
           /\ ret.op = "hashmap_add"
           /\ ret.key \notin Added
           /\ adds = Cardinality(Added)
           /\ SameBucket(Added \cup {ret.key}) )

\* A step that is a second hashmap_add(k, v) right after a completed
\* hashmap_add(k, v).
SecondAdd ==
    /\ status = "live"
    /\ ret.op = "hashmap_add"
    /\ ret'.op = "hashmap_add"
    /\ ret'.key = ret.key
    /\ ret'.value = ret.value
    /\ (ncalls' = ncalls + 1 \/ status' = "crashed")

\* C6: hashmap_add is idempotent: hashmap_add(k, v) called again right after
\* hashmap_add(k, v) completes and leaves every hashmap_get result and the
\* hashmap_keys output as the first call left them.
C6_AddIdempotent ==
    [][SecondAdd => (status' = "live" /\ Obs' = Obs)]_vars

\* C6 witness: the last hashmap_add overwrote, with the same content, the
\* value that the call before it had stored.
C6_Witness ==
    /\ status = "live"
    /\ ret.op = "hashmap_add"
    /\ Len(strs) >= 3
    /\ strs[Len(strs) - 1] = ret.value
    /\ strs[Len(strs)] = ret.value
    /\ (Len(strs) - 1) \in freedStrs
    /\ Lookup(ret.key) = << "value", ret.value >>

\* C7: hashmap_free leaks nothing: after it, every key string, every value
\* string and every chain node that hashmap_add allocated has been released.
C7_FreeReleasesAll ==
    status = "freed" =>
        /\ freedStrs = 1..Len(strs)
        /\ freedNodes = 1..Len(nodes)

\* C8: no storage is ever passed to sfree twice, and the cells released one
\* by one are chain nodes, never a bucket head.
C8_NoDoubleRelease ==
    /\ fault # "double-free"
    /\ freedNodes \subseteq 1..Len(nodes)

\* C9: right after Hashmap() returns, every slot is zero: has_entry 0, key,
\* value and next NULL, and num_entries is 0.
C9_NewTableIsZeroed ==
    ret.op = "Hashmap" =>
        /\ \A i \in 0..(num_buckets - 1) : data[i] = ZeroEntry
        /\ num_entries = 0

\* C10: hashmap_add returns 1 on every completed insertion or overwrite.
C10_AddReturnsOne ==
    (ret.op = "hashmap_add" /\ status = "live") => ret.result = 1

\* The entries of bucket i as a caller can tell them apart: the key and value
\* strings along the chain, in chain order.
ChainView(i) ==
    LET cs == ChainCells(HeadCell(i)) IN
    [j \in 1..Len(cs) |->
        [key |-> KeyText(Cell(cs[j]).key), value |-> KeyText(Cell(cs[j]).value)]]

\* A step that is a completed hashmap_add(k, _) on a table that holds an
\* entry for k.
Overwrite(k) ==
    /\ status = "live"
    /\ status' = "live"
    /\ ret'.op = "hashmap_add"
    /\ ret'.key = k
    /\ ncalls' = ncalls + 1
    /\ EntriesFor(k) # {}

\* C11: frame of overwrite: a hashmap_add(k, v) that finds an entry for k
\* changes that entry's value only: every bucket's chain keeps its entries, in
\* order, with their keys and, but for k's entry, their values, and
\* hashmap_get(k2) gives what it gave before for every k2 other than k.
C11_OverwriteFrame ==
    [][\A k \in Keys : Overwrite(k) =>
          /\ \A i \in 0..(NUM_BUCKETS - 1) :
                /\ Len(ChainView(i)') = Len(ChainView(i))
                /\ \A j \in 1..Len(ChainView(i)) :
                      /\ ChainView(i)'[j].key = ChainView(i)[j].key
                      /\ ChainView(i)[j].key # k =>
                            ChainView(i)'[j].value = ChainView(i)[j].value
          /\ \A k2 \in Keys \ {k} : Lookup(k2)' = Lookup(k2)]_vars

\* C12: hashmap_keys never writes past the end of key_array: the number of
\* key pointers it writes stays within the NUM_BUCKETS the array was
\* allocated for, also when the table holds more entries than buckets.
C12_KeysStayInArray ==
    /\ fault # "heap-overflow"
    /\ ret.op = "hashmap_keys" => Len(ret.keys) <= NUM_BUCKETS

\* The entries stored in the buckets i .. num_buckets-1: for every occupied
\* bucket, the cells of its chain.
RECURSIVE EntryCount(_)
EntryCount(i) ==
    IF i >= num_buckets THEN 0
    ELSE (IF data[i].has_entry = 1 THEN Len(ChainCells(HeadCell(i))) ELSE 0)
         + EntryCount(i + 1)

\* C13: h->num_entries is the number of entries the table holds.
C13_NumEntriesCounts ==
    status = "live" => num_entries = EntryCount(0)

\* C14: no bucket chain holds two entries with the same key content.
C14_NoDuplicateKeys ==
    \A i \in 0..(NUM_BUCKETS - 1) :
        LET cs == ChainCells(HeadCell(i)) IN
        \A j1, j2 \in 1..Len(cs) :
            ( /\ j1 < j2
              /\ StrOk(Cell(cs[j1]).key, freedStrs)
              /\ StrOk(Cell(cs[j2]).key, freedStrs) )
            => strs[Cell(cs[j1]).key] # strs[Cell(cs[j2]).key]

\* C14 witness: the last hashmap_add walked past the head of a chain, found
\* its key in the node behind it and stored the value there, allocating no
\* key and no node.
C14_Witness ==
    /\ status = "live"
    /\ ret.op = "hashmap_add"
    /\ LET cs == ChainCells(HeadCell(hash(ret.key))) IN
       /\ Len(cs) = 2
       /\ Cardinality(EntriesFor(ret.key)) = 1
       /\ KeyText(Cell(cs[2]).key) = ret.key
       /\ Cell(cs[2]).value = Len(strs)
       /\ Cell(cs[2]).key # Len(strs) - 1
       /\ Len(nodes) = 1

\* C15: a bucket head whose has_entry is 0 has a null key, a null value and a
\* null next.
C15_EmptyHeadIsNull ==
    status = "live" =>
        \A i \in 0..(NUM_BUCKETS - 1) :
            data[i].has_entry = 0 =>
                data[i].key = NULL /\ data[i].value = NULL /\ data[i].next = NULL

\* C16: hashmap_get has no side effects: a call of it, for a key present or
\* absent, leaves the bucket array, every chain node, every string, what has
\* been released and the two counters as they were.
C16_GetHasNoSideEffects ==
    [][ret'.op = "hashmap_get" =>
          UNCHANGED << data, nodes, strs, freedNodes, freedStrs,
                       num_buckets, num_entries >>]_vars

\* C16 witness: hashmap_get has walked a chain and returned the value held by
\* a chain node.
C16_Witness ==
    /\ status = "live"
    /\ ret.op = "hashmap_get"
    /\ ret.key \in Added
    /\ \E a \in 1..Len(nodes) : NodeOk(a, freedNodes) /\ nodes[a].value = ret.result

\* The walk from cell c over next links ends at a null next, through cells
\* that are all readable.
RECURSIVE ChainEnds(_)
ChainEnds(c) ==
    IF ~CellOk(c, freedNodes) THEN FALSE
    ELSE IF Cell(c).next = NULL THEN TRUE
    ELSE ChainEnds(NodeCell(Cell(c).next))

\* The places a chain node is linked from: <<i, j>> for the j-th node of
\* bucket i's chain.
NodeLinks ==
    { ij \in (0..(NUM_BUCKETS - 1)) \X (1..Len(nodes)) :
        ij[2] < Len(ChainCells(HeadCell(ij[1]))) }

\* The address of the node linked at ij.
NodeAt(ij) == ChainCells(HeadCell(ij[1]))[ij[2] + 1][2]

\* C17: every bucket chain is a null-terminated list of readable cells, and
\* no chain node is linked from two places, so no chain is cyclic and no two
\* chains share a node.
C17_ChainsAreLists ==
    status = "live" =>
        /\ \A i \in 0..(NUM_BUCKETS - 1) : ChainEnds(HeadCell(i))
        /\ \A l1, l2 \in NodeLinks : l1 # l2 => NodeAt(l1) # NodeAt(l2)

\* C18: no reference a caller holds is left dangling while the table is
\* live: the value reference that hashmap_get has just returned still refers
\* to unreleased storage after a hashmap_add that follows it.
C18_HeldValueStaysValid ==
    [][( /\ status = "live"
         /\ ret.op = "hashmap_get"
         /\ StrOk(ret.result, freedStrs)
         /\ ret'.op = "hashmap_add"
         /\ status' = "live" )
       => StrOk(ret.result, freedStrs')]_vars

\* C19: bucket placement: hash gives an index below num_buckets for every
\* key, num_buckets stays what Hashmap() set it to, and every entry of bucket
\* i, the occupied head and each chained node, has a key whose hash is i.
C19_BucketPlacement ==
    /\ num_buckets = NUM_BUCKETS
    /\ \A k \in Keys : hash(k) \in 0..(num_buckets - 1)
    /\ status = "live" =>
         \A i \in 0..(NUM_BUCKETS - 1) :
            LET cs == ChainCells(HeadCell(i)) IN
            \A j \in 1..Len(cs) :
                (j > 1 \/ data[i].has_entry = 1) =>
                    /\ StrOk(Cell(cs[j]).key, freedStrs)
                    /\ strs[Cell(cs[j]).key] \in Keys
                    /\ hash(strs[Cell(cs[j]).key]) = i

\* The cells a walk from the bucket array reaches.
ReachableCells ==
    UNION { { ChainCells(HeadCell(i))[j] : j \in 1..Len(ChainCells(HeadCell(i))) } :
            i \in 0..(NUM_BUCKETS - 1) }

\* The chain nodes and the strings the table still refers to.
ReachableNodes == { c[2] : c \in { r \in ReachableCells : r[1] = "n" } }
ReachableStrs ==
    { Cell(c).key : c \in ReachableCells } \cup { Cell(c).value : c \in ReachableCells }

\* C20: nothing is orphaned before teardown: while the first table of a run
\* is live, every chain node and every string that hashmap_add allocated and
\* that was not released is reachable from the bucket array.
C20_NothingOrphaned ==
    (status = "live" /\ ncalls = adds + 1) =>
        /\ (1..Len(nodes)) \ freedNodes \subseteq ReachableNodes
        /\ (1..Len(strs)) \ freedStrs \subseteq ReachableStrs

=============================================================================
